---- MODULE Spec2Model ----
(***************************************************************************)
(* unitycatalog-rs: the transport layer (request.rs) and the resource      *)
(* clients (oss/api/*.rs, clients/catalogs.rs, oss/*.rs) as a state        *)
(* machine.  A state holds the resources of the remote catalog service and *)
(* the last completed client call: the HTTP request it sent, the answer    *)
(* it received and the UCRSResult it returned.                             *)
(*                                                                         *)
(* Rust values are represented as follows.                                 *)
(*   String        a tuple of one-character strings                        *)
(*   Option<T>     the empty tuple (None) or a one-element tuple (Some)    *)
(*   HashMap<K,V>  a function                                              *)
(*   Vec<T>        a tuple                                                 *)
(*   JSON          a record with the single field jnull, jstr, jnum, jarr  *)
(*                 or jobj                                                 *)
(***************************************************************************)
EXTENDS Integers, Sequences, FiniteSets, TLC

VARIABLES server, call, hist, trip, fn, tasks

vars == <<server, call, hist, trip, fn, tasks>>

(***************************************************************************)
(* Bounds of the model.                                                    *)
(***************************************************************************)
\* longest string over {"a", "."} given to full_name
MaxNameLen == 2
\* largest number of resources the service holds at a time
MaxResources == 2

(***************************************************************************)
(* String literals of the source and of its tests.                         *)
(***************************************************************************)
S_unity == <<"u", "n", "i", "t", "y">>
S_mycatalog == <<"m", "y", "c", "a", "t", "a", "l", "o", "g">>
S_myschema == <<"m", "y", "s", "c", "h", "e", "m", "a">>
S_default == <<"d", "e", "f", "a", "u", "l", "t">>
S_mytable == <<"m", "y", "t", "a", "b", "l", "e">>
S_new_comment == <<"n", "e", "w", " ", "c", "o", "m", "m", "e", "n", "t">>
S_v == <<"v">>
S_true == <<"t", "r", "u", "e">>
S_false == <<"f", "a", "l", "s", "e">>
S_force == <<"f", "o", "r", "c", "e">>
S_catalog_name == <<"c", "a", "t", "a", "l", "o", "g", "_", "n", "a", "m", "e">>
S_schema_name == <<"s", "c", "h", "e", "m", "a", "_", "n", "a", "m", "e">>
S_dot == <<".">>
PATH_catalogs == <<"/", "a", "p", "i", "/", "2", ".", "1", "/", "u", "n", "i", "t", "y", "-", "c", "a", "t", "a", "l", "o", "g", "/", "c", "a", "t", "a", "l", "o", "g", "s">>
PATH_schemas == <<"/", "a", "p", "i", "/", "2", ".", "1", "/", "u", "n", "i", "t", "y", "-", "c", "a", "t", "a", "l", "o", "g", "/", "s", "c", "h", "e", "m", "a", "s">>
PATH_tables == <<"/", "a", "p", "i", "/", "2", ".", "1", "/", "u", "n", "i", "t", "y", "-", "c", "a", "t", "a", "l", "o", "g", "/", "t", "a", "b", "l", "e", "s">>
FMT_catalog == <<"/", "a", "p", "i", "/", "2", ".", "1", "/", "u", "n", "i", "t", "y", "-", "c", "a", "t", "a", "l", "o", "g", "/", "c", "a", "t", "a", "l", "o", "g", "s", "/", "{", "}">>
FMT_schema == <<"/", "a", "p", "i", "/", "2", ".", "1", "/", "u", "n", "i", "t", "y", "-", "c", "a", "t", "a", "l", "o", "g", "/", "s", "c", "h", "e", "m", "a", "s", "/", "{", "}">>
FMT_table == <<"/", "a", "p", "i", "/", "2", ".", "1", "/", "u", "n", "i", "t", "y", "-", "c", "a", "t", "a", "l", "o", "g", "/", "t", "a", "b", "l", "e", "s", "/", "{", "}">>
FMT_full_name2 == <<"{", "}", ".", "{", "}">>
FMT_full_name3 == <<"{", "}", ".", "{", "}", ".", "{", "}">>
S_200_OK == <<"2", "0", "0", " ", "O", "K">>

(***************************************************************************)
(* Option<T>                                                               *)
(***************************************************************************)
None == <<>>
Some(v) == <<v>>
IsSome(o) == Len(o) = 1
Unwrap(o) == o[1]

(***************************************************************************)
(* format!(template, args...): every "{}" of the template is replaced by   *)
(* the next argument, every other character is copied.                     *)
(***************************************************************************)
RECURSIVE Format(_, _)
Format(tpl, args) ==
    IF tpl = <<>> THEN <<>>
    ELSE IF Len(tpl) >= 2 /\ tpl[1] = "{" /\ tpl[2] = "}"
         THEN Head(args) \o Format(SubSeq(tpl, 3, Len(tpl)), Tail(args))
         ELSE <<tpl[1]>> \o Format(Tail(tpl), args)

\* bool::to_string
BoolToString(b) == IF b THEN S_true ELSE S_false

(***************************************************************************)
(* full_name of the three clients that have one.                           *)
(***************************************************************************)
SchemasClient_full_name_swapped(catalog_name, name) ==
    Format(FMT_full_name2, <<name, catalog_name>>)

SchemasClient_full_name(catalog_name, name) ==
    Format(FMT_full_name2, <<catalog_name, name>>)

OssSchemasClient_full_name(catalog_name, name) ==
    Format(FMT_full_name2, <<catalog_name, name>>)

TablesClient_full_name_slash(catalog_name, schema_name, name) ==
    Format(<<"{", "}", "/", "{", "}", "/", "{", "}">>,
           <<catalog_name, schema_name, name>>)

TablesClient_full_name(catalog_name, schema_name, name) ==
    Format(FMT_full_name3, <<catalog_name, schema_name, name>>)

(***************************************************************************)
(* JSON values, and what serde's derived Serialize / Deserialize do for    *)
(* the field types of the payload structs.                                 *)
(***************************************************************************)
JNull == [jnull |-> TRUE]
JStr(s) == [jstr |-> s]
JNum(n) == [jnum |-> n]
JArr(a) == [jarr |-> a]
JObj(o) == [jobj |-> o]
IsJ(j, tag) == tag \in DOMAIN j

\* the value of a struct field in a JSON object; serde reads a missing
\* Option field as None, exactly as it reads null
Field(o, f) == IF f \in DOMAIN o THEN o[f] ELSE JNull

DeOk(v) == [ok |-> TRUE, value |-> v]
DeErr == [ok |-> FALSE]

Ser_String(s) == JStr(s)
Ser_OptString(o) == IF IsSome(o) THEN JStr(Unwrap(o)) ELSE JNull
Ser_OptMap(o) ==
    IF IsSome(o) THEN JObj([k \in DOMAIN Unwrap(o) |-> JStr(Unwrap(o)[k])])
    ELSE JNull

De_OptString(j) ==
    IF IsJ(j, "jnull") THEN DeOk(None)
    ELSE IF IsJ(j, "jstr") THEN DeOk(Some(j.jstr))
    ELSE DeErr

De_OptI64(j) ==
    IF IsJ(j, "jnull") THEN DeOk(None)
    ELSE IF IsJ(j, "jnum") THEN DeOk(Some(j.jnum))
    ELSE DeErr

De_OptMap(j) ==
    IF IsJ(j, "jnull") THEN DeOk(None)
    ELSE IF IsJ(j, "jobj") /\ \A k \in DOMAIN j.jobj : IsJ(j.jobj[k], "jstr")
         THEN DeOk(Some([k \in DOMAIN j.jobj |-> j.jobj[k].jstr]))
    ELSE DeErr

\* Option<Vec<ColumnInfo>>, Option<TableType>, Option<DataSourceFormat>:
\* the value is kept as the JSON it came in
De_OptArr(j) ==
    IF IsJ(j, "jnull") THEN DeOk(None)
    ELSE IF IsJ(j, "jarr") THEN DeOk(Some(j.jarr))
    ELSE DeErr

\* serde_json::to_string(&b) of request.rs: Ok(text) or Err, as a record
SerOk(j) == [ok |-> TRUE, json |-> j]

Serialize_CreateCatalog_nocomment(p) ==
    SerOk(JObj([name |-> Ser_String(p.name),
                comment |-> JNull,
                properties |-> Ser_OptMap(p.properties)]))

Serialize_CreateCatalog(p) ==
    SerOk(JObj([name |-> Ser_String(p.name),
                comment |-> Ser_OptString(p.comment),
                properties |-> Ser_OptMap(p.properties)]))

Serialize_UpdateCatalog(p) ==
    SerOk(JObj([new_name |-> Ser_OptString(p.new_name),
                properties |-> Ser_OptMap(p.properties),
                comment |-> Ser_OptString(p.comment)]))

Serialize_CreateSchema(p) ==
    SerOk(JObj([name |-> Ser_String(p.name),
                catalog_name |-> Ser_String(p.catalog_name),
                comment |-> Ser_OptString(p.comment),
                properties |-> Ser_OptMap(p.properties)]))

Serialize_UpdateSchema(p) ==
    SerOk(JObj([name |-> Ser_String(p.name),
                new_name |-> Ser_OptString(p.new_name),
                properties |-> Ser_OptMap(p.properties),
                comment |-> Ser_OptString(p.comment)]))

Serialize_CreateTable(p) ==
    SerOk(JObj([name |-> Ser_String(p.name),
                catalog_name |-> Ser_String(p.catalog_name),
                schema_name |-> Ser_String(p.schema_name),
                table_type |-> Ser_String(p.table_type),
                data_source_format |-> Ser_String(p.data_source_format),
                columns |-> JArr(p.columns),
                storage_location |-> Ser_OptString(p.storage_location),
                comment |-> Ser_OptString(p.comment),
                properties |-> Ser_OptMap(p.properties)]))

\* a derived Deserialize: the struct is read when every field is read
De_Struct(fields) ==
    IF \A k \in DOMAIN fields : fields[k].ok
    THEN DeOk([k \in DOMAIN fields |-> fields[k].value])
    ELSE DeErr

Deserialize_CatalogInfo(j) ==
    IF ~IsJ(j, "jobj") THEN DeErr
    ELSE De_Struct([name |-> De_OptString(Field(j.jobj, "name")),
                    comment |-> De_OptString(Field(j.jobj, "comment")),
                    properties |-> De_OptMap(Field(j.jobj, "properties")),
                    created_at |-> De_OptI64(Field(j.jobj, "created_at")),
                    updated_at |-> De_OptI64(Field(j.jobj, "updated_at")),
                    id |-> De_OptString(Field(j.jobj, "id"))])

Deserialize_SchemaInfo(j) ==
    IF ~IsJ(j, "jobj") THEN DeErr
    ELSE De_Struct([name |-> De_OptString(Field(j.jobj, "name")),
                    catalog_name |-> De_OptString(Field(j.jobj, "catalog_name")),
                    comment |-> De_OptString(Field(j.jobj, "comment")),
                    properties |-> De_OptMap(Field(j.jobj, "properties")),
                    full_name |-> De_OptString(Field(j.jobj, "full_name")),
                    created_at |-> De_OptI64(Field(j.jobj, "created_at")),
                    updated_at |-> De_OptI64(Field(j.jobj, "updated_at")),
                    schema_id |-> De_OptString(Field(j.jobj, "schema_id"))])

Deserialize_TableInfo(j) ==
    IF ~IsJ(j, "jobj") THEN DeErr
    ELSE De_Struct([name |-> De_OptString(Field(j.jobj, "name")),
                    catalog_name |-> De_OptString(Field(j.jobj, "catalog_name")),
                    schema_name |-> De_OptString(Field(j.jobj, "schema_name")),
                    table_type |-> De_OptString(Field(j.jobj, "table_type")),
                    data_source_format |->
                        De_OptString(Field(j.jobj, "data_source_format")),
                    columns |-> De_OptArr(Field(j.jobj, "columns")),
                    storage_location |->
                        De_OptString(Field(j.jobj, "storage_location")),
                    comment |-> De_OptString(Field(j.jobj, "comment")),
                    properties |-> De_OptMap(Field(j.jobj, "properties")),
                    created_at |-> De_OptI64(Field(j.jobj, "created_at")),
                    updated_at |-> De_OptI64(Field(j.jobj, "updated_at")),
                    table_id |-> De_OptString(Field(j.jobj, "table_id"))])

\* the element type of a List*Response
DeserializeItem(item, j) ==
    CASE item = "CatalogInfo" -> Deserialize_CatalogInfo(j)
      [] item = "SchemaInfo" -> Deserialize_SchemaInfo(j)
      [] item = "TableInfo" -> Deserialize_TableInfo(j)

\* a List*Response: the Vec field is required, next_page_token is optional
De_ListResponse(j, vec_field, item) ==
    IF ~IsJ(j, "jobj") THEN DeErr
    ELSE IF vec_field \notin DOMAIN j.jobj THEN DeErr
    ELSE IF ~IsJ(j.jobj[vec_field], "jarr") THEN DeErr
    ELSE De_Struct(
             [items |-> De_Struct([i \in 1..Len(j.jobj[vec_field].jarr) |->
                           DeserializeItem(item, j.jobj[vec_field].jarr[i])]),
              next_page_token |->
                  De_OptString(Field(j.jobj, "next_page_token"))])

\* a body type that serde_json::to_string can refuse: a map whose keys are
\* not strings (HashMap<(i32, i32), String>), here a sequence of its
\* entries.  The empty map is written as {}; the first key fails with
\* "key must be a string".
Serialize_NonStringKeyMap(b) ==
    IF b = <<>> THEN SerOk(JObj(<<>>)) ELSE [ok |-> FALSE]

\* the type parameters B and R of RequestClient::request, by name
Serialize(B, b) ==
    CASE B = "String" -> SerOk(Ser_String(b))
      [] B = "NonStringKeyMap" -> Serialize_NonStringKeyMap(b)
      [] B = "CreateCatalog" -> Serialize_CreateCatalog(b)
      [] B = "UpdateCatalog" -> Serialize_UpdateCatalog(b)
      [] B = "CreateSchema" -> Serialize_CreateSchema(b)
      [] B = "UpdateSchema" -> Serialize_UpdateSchema(b)
      [] B = "CreateTable" -> Serialize_CreateTable(b)

Deserialize(R, j) ==
    LET vec == [ListCatalogResponse |-> <<"catalogs", "CatalogInfo">>,
                ListSchemasResponse |-> <<"schemas", "SchemaInfo">>,
                ListTablesResponse |-> <<"tables", "TableInfo">>]
    IN  IF R = "Unit" THEN IF IsJ(j, "jnull") THEN DeOk(<<>>) ELSE DeErr
        ELSE IF R \in DOMAIN vec THEN De_ListResponse(j, vec[R][1], vec[R][2])
        ELSE DeserializeItem(R, j)

\* i32::to_string of the max_results of this model, which are 1..9
I32ToString(n) == <<CASE n = 1 -> "1" [] n = 2 -> "2" [] n = 3 -> "3"
                      [] n = 4 -> "4" [] n = 5 -> "5" [] n = 6 -> "6"
                      [] n = 7 -> "7" [] n = 8 -> "8" [] n = 9 -> "9">>

(***************************************************************************)
(* The catalog service, the external collaborator of the clients: one      *)
(* collection per resource kind, kept in creation order, and the status    *)
(* code contract of the wire protocol.                                     *)
(***************************************************************************)
HasPrefix(s, p) == Len(s) >= Len(p) /\ SubSeq(s, 1, Len(p)) = p

Collections == {[kind |-> "catalogs", path |-> PATH_catalogs],
                [kind |-> "schemas", path |-> PATH_schemas],
                [kind |-> "tables", path |-> PATH_tables]}

\* the collection a path addresses and, below the collection, the identifier
Route(path) ==
    LET At(hits) ==
            IF hits = {} THEN [found |-> FALSE]
            ELSE LET c == CHOOSE c \in hits : TRUE
                 IN  [found |-> TRUE, kind |-> c.kind,
                      id |-> IF path = c.path THEN None
                             ELSE Some(SubSeq(path, Len(c.path) + 2, Len(path)))]
    IN  At({c \in Collections :
               path = c.path \/ HasPrefix(path, c.path \o <<"/">>)})

\* the identifier of a stored resource
ServiceFullName(kind, o) ==
    IF kind = "catalogs" THEN o.name.jstr
    ELSE IF kind = "schemas"
         THEN o.catalog_name.jstr \o S_dot \o o.name.jstr
         ELSE o.catalog_name.jstr \o S_dot \o o.schema_name.jstr
              \o S_dot \o o.name.jstr

QueryParam(url, name) ==
    LET First(hits) == IF hits = {} THEN None
                       ELSE Some(url.query[CHOOSE i \in hits :
                                               \A j \in hits : i <= j][2])
    IN  First({i \in 1..Len(url.query) : url.query[i][1] = name})

ServiceSize(srv) == Len(srv.catalogs) + Len(srv.schemas) + Len(srv.tables)

\* the place of the resource id in a collection, 0 when it has none
IndexOf(coll, kind, id) ==
    LET First(hits) == IF hits = {} THEN 0 ELSE CHOOSE i \in hits : TRUE
    IN  First({i \in 1..Len(coll) : ServiceFullName(kind, coll[i]) = id})

ErrorBody == [json |-> JObj([error_code |-> JStr(<<"E">>)])]

Reply(status, body) ==
    [ok |-> TRUE, status |-> status, body_ok |-> TRUE, body |-> body]

\* the record the service keeps for a create payload
ServiceNew(kind, b) ==
    LET own == IF kind = "catalogs" THEN {"id"}
               ELSE IF kind = "schemas" THEN {"catalog_name", "schema_id"}
               ELSE {"catalog_name", "schema_name", "table_type",
                     "data_source_format", "columns", "storage_location",
                     "table_id"}
    IN  [f \in {"name", "comment", "properties", "created_at", "updated_at"}
               \cup own \cup (IF kind = "schemas" THEN {"full_name"} ELSE {}) |->
            IF f \in {"id", "schema_id", "table_id"} THEN JStr(<<"i">>)
            ELSE IF f = "created_at" THEN JNum(1)
            ELSE IF f = "updated_at" THEN JNull
            ELSE IF f = "full_name"
                 THEN JStr(b.catalog_name.jstr \o S_dot \o b.name.jstr)
            ELSE Field(b, f)]

\* the stored record after a PATCH: a field that is absent or null in the
\* payload is left as it was
ServicePatch(kind, o, b) ==
    LET Named(o1) == IF kind = "schemas"
                     THEN [o1 EXCEPT !.full_name = JStr(ServiceFullName(kind, o1))]
                     ELSE o1
    IN  Named([o EXCEPT
                 !.name = IF IsJ(Field(b, "new_name"), "jstr")
                          THEN Field(b, "new_name") ELSE @,
                 !.comment = IF IsJ(Field(b, "comment"), "jnull") THEN @
                             ELSE Field(b, "comment"),
                 !.properties = IF IsJ(Field(b, "properties"), "jnull") THEN @
                                ELSE Field(b, "properties"),
                 !.updated_at = JNum(2)])

\* the answer to a request on a collection: a page of its list, or a new
\* member.  A page starts after the members that page_token counts and
\* holds at most max_results members (9 when the request names no maximum);
\* next_page_token counts the members up to the end of the page when more
\* follow, and is null on the last page.
ServiceCollection(srv, request, kind) ==
    LET Match(o) ==
            /\ kind # "catalogs" =>
                   QueryParam(request.url, S_catalog_name)
                       = Some(o.catalog_name.jstr)
            /\ kind = "tables" =>
                   QueryParam(request.url, S_schema_name)
                       = Some(o.schema_name.jstr)
        Number(text, default) ==
            IF ~IsSome(text) THEN default
            ELSE IF \E n \in 1..9 : I32ToString(n) = Unwrap(text)
                 THEN CHOOSE n \in 1..9 : I32ToString(n) = Unwrap(text)
                 ELSE -1
        Page(all, skip, last) ==
            [response |->
                 Reply(200, [json |-> JObj(
                     [f \in {kind, "next_page_token"} |->
                         IF f = kind
                         THEN JArr([i \in 1..(last - skip) |->
                                       JObj(all[skip + i])])
                         ELSE IF last < Len(all) THEN JStr(I32ToString(last))
                              ELSE JNull])]),
             server |-> srv]
        Listed(all, skip, max) ==
            IF skip < 0 \/ max < 0
            THEN [response |-> Reply(400, ErrorBody), server |-> srv]
            ELSE IF skip >= Len(all) THEN Page(all, skip, skip)
            ELSE IF skip + max < Len(all) THEN Page(all, skip, skip + max)
            ELSE Page(all, skip, Len(all))
        Stored(new) ==
            IF IndexOf(srv[kind], kind, ServiceFullName(kind, new)) # 0
            THEN [response |-> Reply(409, ErrorBody), server |-> srv]
            ELSE [response |-> Reply(201, [json |-> JObj(new)]),
                  server |-> [srv EXCEPT ![kind] = Append(@, new)]]
    IN  IF request.method = "GET"
        THEN Listed(SelectSeq(srv[kind], Match),
                    Number(QueryParam(request.url,
                               <<"p", "a", "g", "e", "_", "t", "o", "k", "e", "n">>), 0),
                    Number(QueryParam(request.url,
                               <<"m", "a", "x", "_", "r", "e", "s", "u", "l", "t", "s">>), 9))
        ELSE IF request.method = "POST"
        THEN Stored(ServiceNew(kind, Unwrap(request.body).jobj))
        ELSE [response |-> Reply(405, ErrorBody), server |-> srv]

\* the answer to a request on the member at place i of a collection
ServiceMember(srv, request, kind, i) ==
    LET Patched(new, j) ==
            IF j # 0 /\ j # i
            THEN [response |-> Reply(409, ErrorBody), server |-> srv]
            ELSE [response |-> Reply(200, [json |-> JObj(new)]),
                  server |-> [srv EXCEPT ![kind][i] = new]]
        Renamed(new) ==
            Patched(new, IndexOf(srv[kind], kind, ServiceFullName(kind, new)))
    IN  IF i = 0 THEN [response |-> Reply(404, ErrorBody), server |-> srv]
        ELSE IF request.method = "GET"
        THEN [response |-> Reply(200, [json |-> JObj(srv[kind][i])]),
              server |-> srv]
        ELSE IF request.method = "DELETE"
        THEN [response |-> Reply(200, [raw |-> S_200_OK]),
              server |-> [srv EXCEPT ![kind] = SubSeq(@, 1, i - 1)
                                                 \o SubSeq(@, i + 1, Len(@))]]
        ELSE IF request.method = "PATCH"
        THEN Renamed(ServicePatch(kind, srv[kind][i],
                                  Unwrap(request.body).jobj))
        ELSE [response |-> Reply(405, ErrorBody), server |-> srv]

Service(srv, request) ==
    LET Routed(r) ==
            IF ~r.found THEN [response |-> Reply(404, ErrorBody), server |-> srv]
            ELSE IF ~IsSome(r.id) THEN ServiceCollection(srv, request, r.kind)
            ELSE ServiceMember(srv, request, r.kind,
                               IndexOf(srv[r.kind], r.kind, Unwrap(r.id)))
    IN  Routed(Route(request.url.path))

(***************************************************************************)
(* What the network hands to request.send(): the answer of the service, no *)
(* answer at all, or an answer the service contract does not describe (an  *)
(* error status, a redirect status that is not followed, a body that does  *)
(* not decode, a body that breaks off).  Only the service's own answers    *)
(* change the resources.                                                   *)
(***************************************************************************)

Outcomes ==
    {[t |-> "service"], [t |-> "neterr"]}
    \cup [t : {"fault"}, status : {200, 304, 500},
          body : {[raw |-> S_200_OK]}, body_ok : {TRUE}]
    \cup [t : {"fault"}, status : {200}, body : {ErrorBody}, body_ok : BOOLEAN]
    \cup [t : {"fault"}, status : {500}, body : {ErrorBody}, body_ok : {FALSE}]

Respond(srv, o, request) ==
    IF o.t = "service" THEN Service(srv, request).response
    ELSE IF o.t = "neterr" THEN [ok |-> FALSE]
    ELSE [ok |-> TRUE, status |-> o.status, body_ok |-> o.body_ok,
          body |-> o.body]

ServerAfter(srv, o, sent) ==
    IF o.t = "service" /\ sent # <<>> THEN Service(srv, sent[1]).server
    ELSE srv

Received(srv, o, sent) ==
    IF sent = <<>> THEN [nothing |-> TRUE] ELSE Respond(srv, o, sent[1])

(***************************************************************************)
(* errors.rs: UCRSError.  Its reqwest::Error sources are records of their  *)
(* kind and of what reqwest::Error::status() returns for them: a status    *)
(* only for the error made by error_for_status_ref.                        *)
(***************************************************************************)
SendError == [kind |-> "request", status |-> None]
BodyError == [kind |-> "body", status |-> None]
DecodeError == [kind |-> "decode", status |-> None]
StatusError(status) == [kind |-> "status", status |-> Some(status)]
Error_status(e) == e.status

Ok(v) == [kind |-> "Ok", value |-> v]
JSONFormattingError == [kind |-> "JSONFormattingError"]
RequestError(e) == [kind |-> "RequestError", source |-> e]
RequestErrorWithResponse(e, text) ==
    [kind |-> "RequestErrorWithResponse", source |-> e, body |-> text]
JSONParsingError(e) == [kind |-> "JSONParsingError", source |-> e]
DuplicateCatalogName(n) == [kind |-> "DuplicateCatalogName", name |-> n]
DuplicateSchemaName(n) == [kind |-> "DuplicateSchemaName", name |-> n]
DuplicateTableName(n) == [kind |-> "DuplicateTableName", name |-> n]
CatalogNotFound(n) == [kind |-> "CatalogNotFound", name |-> n]
SchemaNotFound(n) == [kind |-> "SchemaNotFound", name |-> n]
TableNotFound(n) == [kind |-> "TableNotFound", name |-> n]
\* Option::unwrap on None
Panic == [kind |-> "panic"]

CONFLICT == 409
NOT_FOUND == 404

(***************************************************************************)
(* Urls.  base_url.join(reference) parses the reference against the base:  *)
(* the references of the clients start with '/', so the path of the base   *)
(* is replaced and its query dropped; what follows the first '#' is the    *)
(* fragment, what follows the first '?' before it is the query, and in the *)
(* path the segments "." and ".." are resolved.  A query is kept as its    *)
(* pairs, in order.  A reference with no '#', no '?' and no segment that   *)
(* starts with '.' is its own path.                                        *)
(***************************************************************************)
base_url ==
    [host |-> "localhost", path |-> <<"/">>, query |-> <<>>,
     fragment |-> None]

Url_join(base, reference) ==
    LET First(hits, none) ==
            IF hits = {} THEN none
            ELSE CHOOSE i \in hits : \A k \in hits : i <= k
        Cut(s, ch) == First({i \in 1..Len(s) : s[i] = ch}, Len(s) + 1)
        Before(s, i) == [k \in 1..(i - 1) |-> s[k]]
        After(s, i) == [k \in 1..(Len(s) - i) |-> s[i + k]]
        RECURSIVE Split(_, _)
        Split(s, ch) ==
            LET Halves(i) ==
                    IF i > Len(s) THEN <<s>>
                    ELSE <<Before(s, i)>> \o Split(After(s, i), ch)
            IN  Halves(Cut(s, ch))
        RECURSIVE Resolve(_, _)
        Resolve(segs, out) ==
            IF segs = <<>> THEN out
            ELSE IF Head(segs) = <<".", ".">>
            THEN Resolve(Tail(segs),
                         [k \in 1..(Len(out) - 1) |-> out[k]]
                             \o (IF Len(segs) = 1 THEN <<<<>>>> ELSE <<>>))
            ELSE IF Head(segs) = <<".">>
            THEN Resolve(Tail(segs),
                         out \o (IF Len(segs) = 1 THEN <<<<>>>> ELSE <<>>))
            ELSE Resolve(Tail(segs), Append(out, Head(segs)))
        RECURSIVE Joined(_)
        Joined(segs) ==
            IF segs = <<>> THEN <<>>
            ELSE <<"/">> \o Head(segs) \o Joined(Tail(segs))
        Path(segs) == IF segs = <<>> THEN <<"/">> ELSE Joined(segs)
        Halved(s, i) == <<Before(s, i), After(s, i)>>
        Pair(s) == Halved(s, Cut(s, "="))
        Pairs(parts) == [k \in 1..Len(parts) |-> Pair(parts[k])]
        NonEmpty(s) == s # <<>>
        Parts(raw_path, raw_query, fragment) ==
            [host |-> base.host,
             path |-> Path(Resolve(Split(After(raw_path, 1), "/"), <<>>)),
             query |-> Pairs(SelectSeq(Split(raw_query, "&"), NonEmpty)),
             fragment |-> fragment]
        Queried(rest, q, fragment) ==
            Parts(Before(rest, q), After(rest, q), fragment)
        Parsed(rest, fragment) == Queried(rest, Cut(rest, "?"), fragment)
        Fragmented(h) ==
            Parsed(Before(reference, h),
                   IF h > Len(reference) THEN None
                   ELSE Some(After(reference, h)))
        Plain ==
            \A i \in 1..Len(reference) :
               /\ reference[i] \notin {"#", "?"}
               /\ reference[i] = "." => (i > 1 /\ reference[i - 1] # "/")
    IN  IF Plain
        THEN [host |-> base.host, path |-> reference, query |-> <<>>,
              fragment |-> None]
        ELSE Fragmented(Cut(reference, "#"))

append_pair(url, name, value) ==
    [url EXCEPT !.query = Append(@, <<name, value>>)]

(***************************************************************************)
(* request.rs: RequestClient.  net is the network a call goes through:    *)
(* the resources of the service and the outcome of request.send(), which   *)
(* is no response, or a response with its status, whether its body can be  *)
(* read to the end, and the body.  A body is [json |-> j] when its text is *)
(* the JSON j and [raw |-> text] when its text is not JSON.  B and R name  *)
(* the type parameters of the body and of the result.                      *)
(***************************************************************************)
\* Response::error_for_status_ref: an error for 4xx and 5xx only
error_for_status_ref(status) == status >= 400 /\ status <= 599

\* Response::json::<R>
Response_json(response, R) ==
    IF ~response.body_ok THEN DeErr
    ELSE IF "raw" \in DOMAIN response.body THEN DeErr
    ELSE Deserialize(R, response.body.json)

RequestClient_request_sendfirst(route, method, body, B, R, net) ==
    LET Decoded(json) ==
            IF json.ok THEN Ok(json.value) ELSE JSONParsingError(DecodeError)
        Classified(response) ==
            IF ~response.ok THEN RequestError(SendError)
            ELSE IF error_for_status_ref(response.status)
                 THEN IF ~response.body_ok THEN RequestError(BodyError)
                      ELSE RequestErrorWithResponse(
                               StatusError(response.status), response.body)
                 ELSE Decoded(Response_json(response, R))
        Sent(request) ==
            [sent |-> <<request>>,
             result |-> Classified(Respond(net.server, net.outcome, request))]
        Built(ser) ==
            IF IsSome(ser) /\ ~Unwrap(ser).ok
            THEN [sent |-> <<[method |-> method, url |-> route,
                              headers |-> {}, body |-> None]>>,
                      result |-> JSONFormattingError]
            ELSE Sent([method |-> method, url |-> route,
                       headers |-> IF IsSome(ser)
                                   THEN {<<"Content-Type", "application/json">>,
                                         <<"Accept", "application/json">>}
                                   ELSE {},
                       body |-> IF IsSome(ser) THEN Some(Unwrap(ser).json)
                                ELSE None])
    IN  Built(IF IsSome(body) THEN Some(Serialize(B, Unwrap(body))) ELSE None)

RequestClient_request(route, method, body, B, R, net) ==
    LET Decoded(json) ==
            IF json.ok THEN Ok(json.value) ELSE JSONParsingError(DecodeError)
        Classified(response) ==
            IF ~response.ok THEN RequestError(SendError)
            ELSE IF error_for_status_ref(response.status)
                 THEN IF ~response.body_ok THEN RequestError(BodyError)
                      ELSE RequestErrorWithResponse(
                               StatusError(response.status), response.body)
                 ELSE Decoded(Response_json(response, R))
        Sent(request) ==
            [sent |-> <<request>>,
             result |-> Classified(Respond(net.server, net.outcome, request))]
        Built(ser) ==
            IF IsSome(ser) /\ ~Unwrap(ser).ok
            THEN [sent |-> <<>>, result |-> JSONFormattingError]
            ELSE Sent([method |-> method, url |-> route,
                       headers |-> IF IsSome(ser)
                                   THEN {<<"Content-Type", "application/json">>,
                                         <<"Accept", "application/json">>}
                                   ELSE {},
                       body |-> IF IsSome(ser) THEN Some(Unwrap(ser).json)
                                ELSE None])
    IN  Built(IF IsSome(body) THEN Some(Serialize(B, Unwrap(body))) ELSE None)

RequestClient_get(route, body, B, R, net) ==
    RequestClient_request(route, "GET", body, B, R, net)

RequestClient_post(route, body, B, R, net) ==
    RequestClient_request(route, "POST", body, B, R, net)

RequestClient_delete(route, body, B, R, net) ==
    RequestClient_request(route, "DELETE", body, B, R, net)

RequestClient_patch(route, body, B, R, net) ==
    RequestClient_request(route, "PATCH", body, B, R, net)

append_paging_always(url, page_token, max_results) ==
    LET u1 == append_pair(url, <<"p", "a", "g", "e", "_", "t", "o", "k", "e", "n">>,
                          IF IsSome(page_token) THEN Unwrap(page_token)
                          ELSE <<>>)
    IN  IF IsSome(max_results)
        THEN append_pair(u1, <<"m", "a", "x", "_", "r", "e", "s", "u", "l", "t", "s">>,
                         I32ToString(Unwrap(max_results)))
        ELSE u1

\* the optional list parameters, appended in the order of the source
append_paging(url, page_token, max_results) ==
    LET u1 == IF IsSome(page_token)
              THEN append_pair(url, <<"p", "a", "g", "e", "_", "t", "o", "k", "e", "n">>, Unwrap(page_token)) ELSE url
    IN  IF IsSome(max_results)
        THEN append_pair(u1, <<"m", "a", "x", "_", "r", "e", "s", "u", "l", "t", "s">>, I32ToString(Unwrap(max_results)))
        ELSE u1

(***************************************************************************)
(* oss/api/catalogs.rs: CatalogsClient                                      *)
(***************************************************************************)
CatalogsClient_list_follow(page_token, max_results, net) ==
    LET Url(token) ==
            append_paging(Url_join(base_url, PATH_catalogs), token, max_results)
        Both(r1, r2) ==
            [sent |-> r1.sent \o r2.sent,
             result |-> IF r2.result.kind = "Ok"
                        THEN Ok([items |-> r1.result.value.items
                                               \o r2.result.value.items,
                                 next_page_token |->
                                     r2.result.value.next_page_token])
                        ELSE r2.result]
        Follow(r) ==
            IF r.result.kind = "Ok" /\ IsSome(r.result.value.next_page_token)
            THEN Both(r, RequestClient_get(
                             Url(r.result.value.next_page_token), None,
                             "String", "ListCatalogResponse", net))
            ELSE r
    IN  Follow(RequestClient_get(Url(page_token), None, "String",
                                 "ListCatalogResponse", net))

CatalogsClient_list(page_token, max_results, net) ==
    LET url0 == Url_join(base_url, PATH_catalogs)
        url1 == url0
        url == append_paging(url1, page_token, max_results)
    IN  RequestClient_get(url, None, "String",
                          "ListCatalogResponse", net)

CatalogsClient_create(props, net) ==
    LET route == Url_join(base_url, PATH_catalogs)
        Remap(r) ==
            LET res == r.result
            IN  [sent |-> r.sent,
                 result |-> IF res.kind = "RequestError"
                            THEN IF Error_status(res.source) = Some(CONFLICT)
                                 THEN DuplicateCatalogName(props.name)
                                 ELSE res
                            ELSE res]
    IN  Remap(RequestClient_post(route, Some(props), "CreateCatalog",
                                 "CatalogInfo", net))

CatalogsClient_get_body(name, net) ==
    LET path == Url_join(base_url, Format(FMT_catalog, <<name>>))
        Remap(r) ==
            LET res == r.result
            IN  [sent |-> r.sent,
                 result |-> IF res.kind = "RequestError"
                            THEN IF Error_status(res.source) = Some(NOT_FOUND)
                                 THEN CatalogNotFound(name)
                                 ELSE res
                            ELSE res]
    IN  Remap(RequestClient_get(path, Some(name), "String", "CatalogInfo",
                                net))

CatalogsClient_get(name, net) ==
    LET path == Url_join(base_url, Format(FMT_catalog, <<name>>))
        Remap(r) ==
            LET res == r.result
            IN  [sent |-> r.sent,
                 result |-> IF res.kind = "RequestError"
                            THEN IF Error_status(res.source) = Some(NOT_FOUND)
                                 THEN CatalogNotFound(name)
                                 ELSE res
                            ELSE res]
    IN  Remap(RequestClient_get(path, None, "String", "CatalogInfo", net))

CatalogsClient_delete_noquirk(name, force, net) ==
    LET path0 == Url_join(base_url, Format(FMT_catalog, <<name>>))
        path == append_pair(path0, S_force, BoolToString(force))
        Remap(r) ==
            LET res == r.result
            IN  [sent |-> r.sent,
                 result |-> IF res.kind = "RequestError"
                            THEN IF Error_status(res.source) = Some(NOT_FOUND)
                                 THEN CatalogNotFound(name)
                                 ELSE res
                            ELSE res]
    IN  Remap(RequestClient_delete(path, None, "String", "Unit", net))

CatalogsClient_delete(name, force, net) ==
    LET path0 == Url_join(base_url, Format(FMT_catalog, <<name>>))
        path == append_pair(path0, S_force, BoolToString(force))
        Remap(r) ==
            LET res == r.result
            IN  [sent |-> r.sent,
                 result |-> IF res.kind = "RequestError"
                            THEN IF Error_status(res.source) = Some(NOT_FOUND)
                                 THEN CatalogNotFound(name)
                                 ELSE res
                            ELSE IF res.kind = "JSONParsingError" THEN Ok(<<>>)
                            ELSE res]
    IN  Remap(RequestClient_delete(path, None, "String", "Unit", net))

CatalogsClient_update_swallow(name, update_props, net) ==
    LET path == Url_join(base_url, Format(FMT_catalog, <<name>>))
        Remap(r) ==
            LET res == r.result
            IN  [sent |-> r.sent,
                 result |-> IF res.kind = "RequestError"
                            THEN IF Error_status(res.source) = Some(NOT_FOUND)
                                 THEN CatalogNotFound(name)
                                 ELSE res
                            ELSE IF res.kind = "JSONParsingError" THEN Ok(<<>>)
                            ELSE res]
    IN  Remap(RequestClient_patch(path, Some(update_props), "UpdateCatalog",
                                  "CatalogInfo", net))

CatalogsClient_update(name, update_props, net) ==
    LET path == Url_join(base_url, Format(FMT_catalog, <<name>>))
        Remap(r) ==
            LET res == r.result
            IN  [sent |-> r.sent,
                 result |-> IF res.kind = "RequestError"
                            THEN IF Error_status(res.source) = Some(NOT_FOUND)
                                 THEN CatalogNotFound(name)
                                 ELSE res
                            ELSE res]
    IN  Remap(RequestClient_patch(path, Some(update_props), "UpdateCatalog",
                                  "CatalogInfo", net))

(***************************************************************************)
(* oss/api/schemas.rs: SchemasClient                                        *)
(***************************************************************************)
SchemasClient_list(catalog_name, page_token, max_results, net) ==
    LET url0 == Url_join(base_url, PATH_schemas)
        url1 == append_pair(url0, S_catalog_name, catalog_name)
        url == append_paging(url1, page_token, max_results)
    IN  RequestClient_get(url, None, "String",
                          "ListSchemasResponse", net)

SchemasClient_create(props, net) ==
    LET route == Url_join(base_url, PATH_schemas)
        Remap(r) ==
            LET res == r.result
            IN  [sent |-> r.sent,
                 result |-> IF res.kind = "RequestError"
                            THEN IF Error_status(res.source) = Some(CONFLICT)
                                 THEN DuplicateSchemaName(
                                          SchemasClient_full_name(props.catalog_name, props.name))
                                 ELSE res
                            ELSE res]
    IN  Remap(RequestClient_post(route, Some(props), "CreateSchema",
                                 "SchemaInfo", net))

SchemasClient_get_catalog(name, net) ==
    LET path == Url_join(base_url, Format(FMT_catalog, <<name>>))
        Remap(r) ==
            LET res == r.result
            IN  [sent |-> r.sent,
                 result |-> IF res.kind = "RequestError"
                            THEN IF Error_status(res.source) = Some(NOT_FOUND)
                                 THEN SchemaNotFound(name)
                                 ELSE res
                            ELSE res]
    IN  Remap(RequestClient_get(path, None, "String", "SchemaInfo", net))

SchemasClient_get(name, net) ==
    LET path == Url_join(base_url, Format(FMT_schema, <<name>>))
        Remap(r) ==
            LET res == r.result
            IN  [sent |-> r.sent,
                 result |-> IF res.kind = "RequestError"
                            THEN IF Error_status(res.source) = Some(NOT_FOUND)
                                 THEN SchemaNotFound(name)
                                 ELSE res
                            ELSE res]
    IN  Remap(RequestClient_get(path, None, "String", "SchemaInfo", net))

SchemasClient_delete(name, force, net) ==
    LET path0 == Url_join(base_url, Format(FMT_schema, <<name>>))
        path == append_pair(path0, S_force, BoolToString(force))
        Remap(r) ==
            LET res == r.result
            IN  [sent |-> r.sent,
                 result |-> IF res.kind = "RequestError"
                            THEN IF Error_status(res.source) = Some(NOT_FOUND)
                                 THEN SchemaNotFound(name)
                                 ELSE res
                            ELSE IF res.kind = "JSONParsingError" THEN Ok(<<>>)
                            ELSE res]
    IN  Remap(RequestClient_delete(path, None, "String", "Unit", net))

SchemasClient_update(name, update_props, net) ==
    LET path == Url_join(base_url, Format(FMT_schema, <<name>>))
        Remap(r) ==
            LET res == r.result
            IN  [sent |-> r.sent,
                 result |-> IF res.kind = "RequestError"
                            THEN IF Error_status(res.source) = Some(NOT_FOUND)
                                 THEN SchemaNotFound(name)
                                 ELSE res
                            ELSE res]
    IN  Remap(RequestClient_patch(path, Some(update_props), "UpdateSchema",
                                  "SchemaInfo", net))

(***************************************************************************)
(* oss/api/tables.rs: TablesClient                                          *)
(***************************************************************************)
TablesClient_list(catalog_name, schema_name, page_token, max_results, net) ==
    LET url0 == Url_join(base_url, PATH_tables)
        url1 == append_pair(append_pair(url0, S_catalog_name, catalog_name),
                            S_schema_name, schema_name)
        url == append_paging(url1, page_token, max_results)
    IN  RequestClient_get(url, None, "String",
                          "ListTablesResponse", net)

TablesClient_create(props, net) ==
    LET route == Url_join(base_url, PATH_tables)
        Remap(r) ==
            LET res == r.result
            IN  [sent |-> r.sent,
                 result |-> IF res.kind = "RequestError"
                            THEN IF Error_status(res.source) = Some(CONFLICT)
                                 THEN DuplicateTableName(props.name)
                                 ELSE res
                            ELSE res]
    IN  Remap(RequestClient_post(route, Some(props), "CreateTable",
                                 "TableInfo", net))

TablesClient_get(name, net) ==
    LET path == Url_join(base_url, Format(FMT_table, <<name>>))
        Remap(r) ==
            LET res == r.result
            IN  [sent |-> r.sent,
                 result |-> IF res.kind = "RequestError"
                            THEN IF Error_status(res.source) = Some(NOT_FOUND)
                                 THEN TableNotFound(name)
                                 ELSE res
                            ELSE res]
    IN  Remap(RequestClient_get(path, None, "String", "TableInfo", net))

TablesClient_delete_noquirk(name, net) ==
    LET path == Url_join(base_url, Format(FMT_table, <<name>>))
        Remap(r) ==
            LET res == r.result
            IN  [sent |-> r.sent,
                 result |-> IF res.kind = "RequestError"
                            THEN IF Error_status(res.source) = Some(NOT_FOUND)
                                 THEN TableNotFound(name)
                                 ELSE res
                            ELSE res]
    IN  Remap(RequestClient_delete(path, None, "String", "Unit", net))

TablesClient_delete(name, net) ==
    LET path == Url_join(base_url, Format(FMT_table, <<name>>))
        Remap(r) ==
            LET res == r.result
            IN  [sent |-> r.sent,
                 result |-> IF res.kind = "RequestError"
                            THEN IF Error_status(res.source) = Some(NOT_FOUND)
                                 THEN TableNotFound(name)
                                 ELSE res
                            ELSE IF res.kind = "JSONParsingError" THEN Ok(<<>>)
                            ELSE res]
    IN  Remap(RequestClient_delete(path, None, "String", "Unit", net))

(***************************************************************************)
(* clients/catalogs.rs: the older CatalogsClient.  create and update build *)
(* the body from their arguments; create unwraps the status of the error.  *)
(***************************************************************************)
ClientsCatalogsClient_list(page_token, max_results, net) ==
    LET url0 == Url_join(base_url, PATH_catalogs)
        url == append_paging(url0, page_token, max_results)
    IN  RequestClient_get(url, None, "String",
                          "ListCatalogResponse", net)

ClientsCatalogsClient_create(name, comment, properties, net) ==
    LET route == Url_join(base_url, PATH_catalogs)
        body == [name |-> name, comment |-> comment, properties |-> properties]
        Remap(r) ==
            LET res == r.result
            IN  [sent |-> r.sent,
                 result |-> IF res.kind = "RequestError"
                            THEN IF ~IsSome(Error_status(res.source)) THEN Panic
                                 ELSE IF Unwrap(Error_status(res.source)) = 409
                                      THEN DuplicateCatalogName(name)
                                      ELSE res
                            ELSE res]
    IN  Remap(RequestClient_post(route, Some(body), "CreateCatalog",
                                 "CatalogInfo", net))

ClientsCatalogsClient_get(name, net) ==
    LET path == Url_join(base_url, Format(FMT_catalog, <<name>>))
        Remap(r) ==
            LET res == r.result
            IN  [sent |-> r.sent,
                 result |-> IF res.kind = "RequestError"
                            THEN IF Error_status(res.source) = Some(NOT_FOUND)
                                 THEN CatalogNotFound(name)
                                 ELSE res
                            ELSE res]
    IN  Remap(RequestClient_get(path, None, "String", "CatalogInfo", net))

ClientsCatalogsClient_delete_onlytrue(name, force, net) ==
    LET path0 == Url_join(base_url, Format(FMT_catalog, <<name>>))
        path == IF force THEN append_pair(path0, S_force, S_true)
                ELSE path0
        Remap(r) ==
            LET res == r.result
            IN  [sent |-> r.sent,
                 result |-> IF res.kind = "RequestError"
                            THEN IF Error_status(res.source) = Some(NOT_FOUND)
                                 THEN CatalogNotFound(name)
                                 ELSE res
                            ELSE IF res.kind = "JSONParsingError" THEN Ok(<<>>)
                            ELSE res]
    IN  Remap(RequestClient_delete(path, None, "String", "Unit", net))

ClientsCatalogsClient_delete(name, force, net) ==
    LET path0 == Url_join(base_url, Format(FMT_catalog, <<name>>))
        path == IF force THEN append_pair(path0, S_force, S_true)
                ELSE append_pair(path0, S_force, S_false)
        Remap(r) ==
            LET res == r.result
            IN  [sent |-> r.sent,
                 result |-> IF res.kind = "RequestError"
                            THEN IF Error_status(res.source) = Some(NOT_FOUND)
                                 THEN CatalogNotFound(name)
                                 ELSE res
                            ELSE IF res.kind = "JSONParsingError" THEN Ok(<<>>)
                            ELSE res]
    IN  Remap(RequestClient_delete(path, None, "String", "Unit", net))

ClientsCatalogsClient_update(name, new_name, properties, comment, net) ==
    LET path == Url_join(base_url, Format(FMT_catalog, <<name>>))
        body == [new_name |-> new_name, properties |-> properties,
                 comment |-> comment]
        Remap(r) ==
            LET res == r.result
            IN  [sent |-> r.sent,
                 result |-> IF res.kind = "RequestError"
                            THEN IF Error_status(res.source) = Some(NOT_FOUND)
                                 THEN CatalogNotFound(name)
                                 ELSE res
                            ELSE res]
    IN  Remap(RequestClient_patch(path, Some(body), "UpdateCatalog",
                                  "CatalogInfo", net))

(***************************************************************************)
(* The calls of the model: the clients, and the arguments they are called  *)
(* with.                                                                   *)
(***************************************************************************)
Clients == {"catalogs", "schemas", "tables", "clients_catalogs"}

KindOf(client) ==
    CASE client = "catalogs" -> "catalogs"
      [] client = "clients_catalogs" -> "catalogs"
      [] client = "schemas" -> "schemas"
      [] client = "tables" -> "tables"

Column == JObj([name |-> JStr(<<"m", "y", "_", "c", "o", "l", "u", "m", "n">>), type_name |-> JStr(<<"I", "N", "T">>)])

CreateCatalogs ==
    {[name |-> S_mycatalog, comment |-> Some(S_new_comment),
      properties |-> Some([k |-> S_v])],
     [name |-> S_unity, comment |-> None, properties |-> None]}
UpdateCatalogs ==
    {[new_name |-> None, properties |-> None, comment |-> Some(S_new_comment)],
     [new_name |-> Some(S_unity), properties |-> Some([k |-> S_v]),
      comment |-> None]}
CreateSchemas ==
    {[name |-> S_myschema, catalog_name |-> S_unity,
      comment |-> Some(S_new_comment), properties |-> Some([k |-> S_v])],
     [name |-> S_default, catalog_name |-> S_unity, comment |-> None,
      properties |-> None]}
UpdateSchemas ==
    {[name |-> S_myschema, new_name |-> None, properties |-> None,
      comment |-> Some(S_new_comment)],
     [name |-> S_myschema, new_name |-> Some(S_default), properties |-> None,
      comment |-> None]}
CreateTables ==
    {[name |-> S_mytable, catalog_name |-> S_unity, schema_name |-> S_default,
      table_type |-> <<"E", "X", "T", "E", "R", "N", "A", "L">>, data_source_format |-> <<"D", "E", "L", "T", "A">>,
      columns |-> <<Column>>, storage_location |-> Some(<<"f", "i", "l", "e", ":", "/", "/", "/", "t", "m", "p", "/", "m">>),
      comment |-> c, properties |-> None] : c \in {None, Some(S_new_comment)}}

CreatePayloads(client) ==
    CASE KindOf(client) = "catalogs" -> CreateCatalogs
      [] KindOf(client) = "schemas" -> CreateSchemas
      [] KindOf(client) = "tables" -> CreateTables

UpdatePayloads(client) ==
    CASE KindOf(client) = "catalogs" -> UpdateCatalogs
      [] KindOf(client) = "schemas" -> UpdateSchemas

\* the identifier a create payload is later addressed by
PayloadId(client, props) ==
    CASE KindOf(client) = "catalogs" -> props.name
      [] KindOf(client) = "schemas" ->
             SchemasClient_full_name(props.catalog_name, props.name)
      [] KindOf(client) = "tables" ->
             TablesClient_full_name(props.catalog_name, props.schema_name,
                                    props.name)

Ids(client) == {PayloadId(client, p) : p \in CreatePayloads(client)}

ListArgs(client) ==
    CASE KindOf(client) = "catalogs" -> {<<>>}
      [] KindOf(client) = "schemas" -> {<<S_unity>>}
      [] KindOf(client) = "tables" -> {<<S_unity, S_default>>}


(***************************************************************************)
(* The methods of the four clients, by operation.                          *)
(***************************************************************************)
DoList(client, a, page_token, max_results, net) ==
    CASE client = "catalogs" ->
             CatalogsClient_list(page_token, max_results, net)
      [] client = "clients_catalogs" ->
             ClientsCatalogsClient_list(page_token, max_results, net)
      [] client = "schemas" ->
             SchemasClient_list(a[1], page_token, max_results, net)
      [] client = "tables" ->
             TablesClient_list(a[1], a[2], page_token, max_results, net)

DoCreate(client, props, net) ==
    CASE client = "catalogs" -> CatalogsClient_create(props, net)
      [] client = "clients_catalogs" ->
             ClientsCatalogsClient_create(props.name, props.comment,
                                          props.properties, net)
      [] client = "schemas" -> SchemasClient_create(props, net)
      [] client = "tables" -> TablesClient_create(props, net)

DoGet(client, id, net) ==
    CASE client = "catalogs" -> CatalogsClient_get(id, net)
      [] client = "clients_catalogs" -> ClientsCatalogsClient_get(id, net)
      [] client = "schemas" -> SchemasClient_get(id, net)
      [] client = "tables" -> TablesClient_get(id, net)

DoDelete(client, id, force, net) ==
    CASE client = "catalogs" -> CatalogsClient_delete(id, force, net)
      [] client = "clients_catalogs" ->
             ClientsCatalogsClient_delete(id, force, net)
      [] client = "schemas" -> SchemasClient_delete(id, force, net)
      [] client = "tables" -> TablesClient_delete(id, net)

DoUpdate(client, id, props, net) ==
    CASE client = "catalogs" -> CatalogsClient_update(id, props, net)
      [] client = "clients_catalogs" ->
             ClientsCatalogsClient_update(id, props.new_name, props.properties,
                                          props.comment, net)
      [] client = "schemas" -> SchemasClient_update(id, props, net)

(***************************************************************************)
(* hist is the last write the caller knows of: the last create, update or  *)
(* delete that returned Ok, with what it wrote when it was the service     *)
(* that answered it.                                                       *)
(***************************************************************************)
Unknown == [st |-> "unknown"]

\* the callers that share one RequestClient by reference
Tasks == {1, 2}

Served(o, result) == o.t = "service" /\ result.kind = "Ok"

Init ==
    /\ tasks = [p \in Tasks |-> [pc |-> "idle"]]
    /\ server = [catalogs |-> <<>>, schemas |-> <<>>, tables |-> <<>>]
    /\ call = [op |-> "none"]
    /\ hist = Unknown
    /\ trip = [pc |-> "off"]
    /\ fn = [op |-> "none"]

List ==
    /\ call.op = "none"
    /\ \E client \in Clients, o \in Outcomes, page_token \in {None, Some(<<"1">>)},
       max_results \in {None, Some(1)} :
      \E a \in ListArgs(client) :
        LET net == [server |-> server, outcome |-> o]
            ret == DoList(client, a, page_token, max_results, net)
        IN  \E r \in {ret} :
            /\ server' = ServerAfter(server, o, r.sent)
            /\ call' = [op |-> "list", client |-> client, outcome |-> o,
                        args |-> a, page_token |-> page_token,
                        max_results |-> max_results,
                        sent |-> r.sent,
                        response |-> Received(server, o, r.sent),
                        result |-> r.result]
            /\ UNCHANGED <<hist, trip, fn, tasks>>

Create ==
    /\ call.op = "none"
    /\ \E client \in Clients, o \in Outcomes :
      \E props \in CreatePayloads(client) :
        LET net == [server |-> server, outcome |-> o]
            ret == DoCreate(client, props, net)
            id == PayloadId(client, props)
        IN  \E r \in {ret} :
            /\ ServiceSize(ServerAfter(server, o, r.sent)) <= MaxResources
            /\ server' = ServerAfter(server, o, r.sent)
            /\ call' = [op |-> "create", client |-> client, outcome |-> o,
                        props |-> props, id |-> id, pre |-> hist,
                        sent |-> r.sent,
                        response |-> Received(server, o, r.sent),
                        result |-> r.result]
            /\ hist' = IF Served(o, r.result)
                       THEN [st |-> "created", kind |-> KindOf(client),
                             id |-> id, props |-> props]
                       ELSE IF r.result.kind = "Ok" THEN Unknown ELSE hist
            /\ UNCHANGED <<trip, fn, tasks>>

Get ==
    /\ call.op = "none"
    /\ \E client \in Clients, o \in Outcomes :
      \E id \in Ids(client) :
        LET net == [server |-> server, outcome |-> o]
            ret == DoGet(client, id, net)
        IN  \E r \in {ret} :
            /\ server' = ServerAfter(server, o, r.sent)
            /\ call' = [op |-> "get", client |-> client, outcome |-> o,
                        id |-> id, pre |-> hist,
                        sent |-> r.sent,
                        response |-> Received(server, o, r.sent),
                        result |-> r.result]
            /\ UNCHANGED <<hist, trip, fn, tasks>>

Update ==
    /\ call.op = "none"
    /\ \E client \in Clients \ {"tables"}, o \in Outcomes :
      \E id \in Ids(client), props \in UpdatePayloads(client) :
        LET net == [server |-> server, outcome |-> o]
            ret == DoUpdate(client, id, props, net)
        IN  \E r \in {ret} :
            /\ server' = ServerAfter(server, o, r.sent)
            /\ call' = [op |-> "update", client |-> client, outcome |-> o,
                        id |-> id, props |-> props, pre |-> hist,
                        sent |-> r.sent,
                        response |-> Received(server, o, r.sent),
                        result |-> r.result]
            /\ hist' = IF Served(o, r.result)
                       THEN [st |-> "updated", kind |-> KindOf(client),
                             id |-> id, props |-> props,
                             value |-> r.result.value]
                       ELSE IF r.result.kind = "Ok" THEN Unknown ELSE hist
            /\ UNCHANGED <<trip, fn, tasks>>

Delete ==
    /\ call.op = "none"
    /\ \E client \in Clients, o \in Outcomes, force \in BOOLEAN :
      \E id \in Ids(client) :
        LET net == [server |-> server, outcome |-> o]
            ret == DoDelete(client, id, force, net)
        IN  \E r \in {ret} :
            /\ server' = ServerAfter(server, o, r.sent)
            /\ call' = [op |-> "delete", client |-> client, outcome |-> o,
                        id |-> id, force |-> force, pre |-> hist,
                        sent |-> r.sent,
                        response |-> Received(server, o, r.sent),
                        result |-> r.result]
            /\ hist' = IF Served(o, r.result)
                       THEN [st |-> "deleted", kind |-> KindOf(client), id |-> id]
                       ELSE IF r.result.kind = "Ok" THEN Unknown ELSE hist
            /\ UNCHANGED <<trip, fn, tasks>>

\* the caller takes the UCRSResult; the clients keep nothing of the call
Return ==
    /\ call.op # "none"
    /\ call' = [op |-> "none"]
    /\ UNCHANGED <<server, hist, trip, fn, tasks>>

Next == List \/ Create \/ Get \/ Update \/ Delete \/ Return

Spec == Init /\ [][Next]_vars

(***************************************************************************)
(* full_name as a function of its arguments: the arguments are drawn from  *)
(* the names of the tests and from every string over 'a' and '.' of at     *)
(* most MaxNameLen characters.                                             *)
(***************************************************************************)
FnStrings ==
    {S_unity, S_myschema, S_default, S_mytable}
    \cup {<<"a", ".", "b">>, <<"b", ".", "c">>, <<"b">>, <<"c">>}
    \cup UNION {[1..n -> {"a", "."}] : n \in 0..MaxNameLen}

InitFullName ==
    /\ tasks = [p \in Tasks |-> [pc |-> "idle"]]
    /\ server = [catalogs |-> <<>>, schemas |-> <<>>, tables |-> <<>>]
    /\ call = [op |-> "none"]
    /\ hist = Unknown
    /\ trip = [pc |-> "off"]
    /\ fn \in [op : {"none"}, args : FnStrings \X FnStrings \X FnStrings]

CallSchemasFullName ==
    /\ fn.op = "none"
    /\ fn' = [op |-> "SchemasClient::full_name", args |-> fn.args,
              out |-> SchemasClient_full_name(fn.args[1], fn.args[2])]
    /\ UNCHANGED <<server, call, hist, trip, tasks>>

CallOssSchemasFullName ==
    /\ fn.op = "none"
    /\ fn' = [op |-> "oss::SchemasClient::full_name", args |-> fn.args,
              out |-> OssSchemasClient_full_name(fn.args[1], fn.args[2])]
    /\ UNCHANGED <<server, call, hist, trip, tasks>>

CallTablesFullName ==
    /\ fn.op = "none"
    /\ fn' = [op |-> "TablesClient::full_name", args |-> fn.args,
              out |-> TablesClient_full_name(fn.args[1], fn.args[2], fn.args[3])]
    /\ UNCHANGED <<server, call, hist, trip, tasks>>

NextFullName ==
    CallSchemasFullName \/ CallOssSchemasFullName \/ CallTablesFullName

SpecFullName == InitFullName /\ [][NextFullName]_vars

(***************************************************************************)
(* Properties of a completed call.                                         *)
(***************************************************************************)
\* the call received a response with this status
Answered(status) ==
    /\ call.op # "none"
    /\ call.sent # <<>>
    /\ call.response.ok
    /\ call.response.status = status

\* the call received a response whose status is in the success range
AnsweredSuccess ==
    /\ call.op # "none"
    /\ call.sent # <<>>
    /\ call.response.ok
    /\ call.response.status >= 200 /\ call.response.status <= 299

\* the call received a response with another status
AnsweredNonSuccess ==
    /\ call.op # "none"
    /\ call.sent # <<>>
    /\ call.response.ok
    /\ ~(call.response.status >= 200 /\ call.response.status <= 299)

NotFoundOf(client, id) ==
    CASE KindOf(client) = "catalogs" -> CatalogNotFound(id)
      [] KindOf(client) = "schemas" -> SchemaNotFound(id)
      [] KindOf(client) = "tables" -> TableNotFound(id)

DuplicateKindOf(client) ==
    CASE KindOf(client) = "catalogs" -> "DuplicateCatalogName"
      [] KindOf(client) = "schemas" -> "DuplicateSchemaName"
      [] KindOf(client) = "tables" -> "DuplicateTableName"

\* C1: a get or update that the server answers with 404 returns the
\* NotFound error of the client's resource kind, carrying the identifier
\* that was passed in.
C1_NotFoundOn404 ==
    (call.op \in {"get", "update"} /\ Answered(404))
        => call.result = NotFoundOf(call.client, call.id)

\* C2: a delete that the server answers with 404 returns the NotFound error
\* of the resource kind with the identifier, never Ok(()) and never a
\* generic error.
C2_DeleteNotFoundOn404 ==
    (call.op = "delete" /\ Answered(404))
        => call.result = NotFoundOf(call.client, call.id)

\* C3: a create of a name whose previous create succeeded, with no delete
\* since, returns the Duplicate*Name error of the resource kind when the
\* service answers it.
C3_DuplicateOnSecondCreate ==
    (/\ call.op = "create"
     /\ call.outcome.t = "service"
     /\ call.pre.st = "created"
     /\ call.pre.kind = KindOf(call.client)
     /\ call.pre.id = call.id)
        => call.result.kind = DuplicateKindOf(call.client)

\* C4: a delete answered with a 2xx status and a body that is not JSON for
\* the unit type returns Ok(()), for every client.
C4_DeleteOkOnUndecodableBody ==
    (/\ call.op = "delete"
     /\ AnsweredSuccess
     /\ ~Response_json(call.response, "Unit").ok)
        => call.result = Ok(<<>>)

C4_Witness ==
    /\ call.op = "delete"
    /\ call.outcome.t = "service"
    /\ Answered(200)
    /\ call.response.body = [raw |-> S_200_OK]
    /\ call.result = Ok(<<>>)

\* C5: every non-2xx status other than the remapped one (409 for create,
\* 404 for get, update and delete) makes the operation return
\* RequestErrorWithResponse with that status and the body of the response.
C5_OtherStatusIsGeneric ==
    (/\ call.op \in {"create", "get", "update", "delete"}
     /\ AnsweredNonSuccess
     /\ call.op = "create" => call.response.status # 409
     /\ call.op \in {"get", "update", "delete"} => call.response.status # 404)
        => call.result = RequestErrorWithResponse(
                             StatusError(call.response.status),
                             call.response.body)

\* C6: a list, create, get or update answered with a 2xx status and a body
\* that cannot be decoded (text that is not JSON, or a body that breaks
\* off) returns JSONParsingError, never Ok.
C6_ParsingErrorOutsideDelete ==
    (/\ call.op \in {"list", "create", "get", "update"}
     /\ AnsweredSuccess
     /\ \/ ~call.response.body_ok
        \/ "raw" \in DOMAIN call.response.body)
        => call.result.kind = "JSONParsingError"

C6_Witness ==
    /\ call.op = "update"
    /\ Answered(200)
    /\ call.response.body = [raw |-> S_200_OK]
    /\ call.result.kind = "JSONParsingError"

\* C8: a get that the service answers, issued when the last write was the
\* successful create of the same identifier, returns a record whose name,
\* comment and properties are those of the create payload.
C8_CreateThenGet ==
    (/\ call.op = "get"
     /\ call.outcome.t = "service"
     /\ call.pre.st = "created"
     /\ call.pre.kind = KindOf(call.client)
     /\ call.pre.id = call.id)
        => /\ call.result.kind = "Ok"
           /\ call.result.value.name = Some(call.pre.props.name)
           /\ call.result.value.comment = call.pre.props.comment
           /\ call.result.value.properties = call.pre.props.properties

C8_Witness ==
    /\ call.op = "get"
    /\ call.outcome.t = "service"
    /\ call.pre.st = "created"
    /\ call.pre.id = call.id
    /\ call.id = S_mycatalog
    /\ call.pre.props.comment = Some(S_new_comment)
    /\ call.pre.props.properties = Some([k |-> S_v])
    /\ call.result.kind = "Ok"

\* C9: a get that the service answers, issued when the last write was the
\* successful delete of the same identifier, fails with the NotFound error
\* carrying the identifier.
C9_GetAfterDelete ==
    (/\ call.op = "get"
     /\ call.outcome.t = "service"
     /\ call.pre.st = "deleted"
     /\ call.pre.kind = KindOf(call.client)
     /\ call.pre.id = call.id)
        => call.result = NotFoundOf(call.client, call.id)

\* C10: full_name is the '.'-join of its arguments in ancestor-to-self
\* order, for the three full_name functions; ("unity", "myschema") gives
\* "unity.myschema" and ("unity", "default", "mytable") gives
\* "unity.default.mytable".
C10_FullNameIsDotJoin ==
    /\ fn.op \in {"SchemasClient::full_name", "oss::SchemasClient::full_name"}
         => /\ fn.out = fn.args[1] \o <<".">> \o fn.args[2]
            /\ (fn.args[1] = S_unity /\ fn.args[2] = S_myschema)
                 => fn.out = <<"u", "n", "i", "t", "y", ".", "m", "y", "s", "c", "h", "e", "m", "a">>
    /\ fn.op = "TablesClient::full_name"
         => /\ fn.out = fn.args[1] \o <<".">> \o fn.args[2]
                          \o <<".">> \o fn.args[3]
            /\ (fn.args = <<S_unity, S_default, S_mytable>>)
                 => fn.out = <<"u", "n", "i", "t", "y", ".", "d", "e", "f", "a", "u", "l", "t", ".", "m", "y", "t", "a", "b", "l", "e">>

C10_Witness ==
    /\ fn.op = "TablesClient::full_name"
    /\ fn.args = <<S_unity, S_default, S_mytable>>
    /\ fn.out = <<"u", "n", "i", "t", "y", ".", "d", "e", "f", "a", "u", "l", "t", ".", "m", "y", "t", "a", "b", "l", "e">>

(***************************************************************************)
(* tests::test_round_trip of the clients: list, create, list, update (the  *)
(* tables test has none), delete, list, each call ended by `?`.  The       *)
(* service answers every call and nobody else writes.  The resource that   *)
(* the test creates does not exist at the start; another one of its kind   *)
(* may.                                                                    *)
(***************************************************************************)
SerializeCreate(client, props) ==
    CASE KindOf(client) = "catalogs" -> Serialize_CreateCatalog(props)
      [] KindOf(client) = "schemas" -> Serialize_CreateSchema(props)
      [] KindOf(client) = "tables" -> Serialize_CreateTable(props)

\* the collections of the service before the test that creates props
ServersWithout(client, props) ==
    LET empty == [catalogs |-> <<>>, schemas |-> <<>>, tables |-> <<>>]
        others == {q \in CreatePayloads(client) :
                      PayloadId(client, q) # PayloadId(client, props)}
    IN  {empty} \cup
        {[empty EXCEPT ![KindOf(client)] =
              <<ServiceNew(KindOf(client), SerializeCreate(client, q).json.jobj)>>]
           : q \in others}

\* the update of the test: it sets the comment and leaves the name
TestUpdates(client) ==
    IF client = "tables" THEN {None}
    ELSE {None} \cup {Some(u) : u \in {p \in UpdatePayloads(client) :
                                           p.new_name = None}}

InitRoundTrip ==
    /\ tasks = [p \in Tasks |-> [pc |-> "idle"]]
    /\ call = [op |-> "none"]
    /\ hist = Unknown
    /\ fn = [op |-> "none"]
    /\ \E client \in Clients :
         \E props \in CreatePayloads(client), upd \in TestUpdates(client),
            args \in ListArgs(client) :
           /\ server \in ServersWithout(client, props)
           /\ trip = [pc |-> "start", client |-> client, props |-> props,
                      upd |-> upd, args |-> args,
                      L0 |-> None, L1 |-> None, L2 |-> None]

ServiceNet == [server |-> server, outcome |-> [t |-> "service"]]

\* the position of the test after a call: `?` returns from the test on Err
AfterCall(result, pc) == IF result.kind = "Ok" THEN pc ELSE "failed"

RoundTripList(from, to, field) ==
    /\ trip.pc = from
    /\ \E r \in {DoList(trip.client, trip.args, None, None,
                        ServiceNet)} :
         /\ server' = ServerAfter(server, [t |-> "service"], r.sent)
         /\ trip' = [trip EXCEPT
                       !.pc = AfterCall(r.result, to),
                       ![field] = IF r.result.kind = "Ok"
                                  THEN Some(r.result.value) ELSE @]
    /\ UNCHANGED <<call, hist, fn, tasks>>

RoundTripList0 == RoundTripList("start", "listed0", "L0")
RoundTripList1 == RoundTripList("created", "listed1", "L1")
RoundTripList2 == RoundTripList("deleted", "done", "L2")

RoundTripCreate ==
    /\ trip.pc = "listed0"
    /\ \E r \in {DoCreate(trip.client, trip.props, ServiceNet)} :
         /\ server' = ServerAfter(server, [t |-> "service"], r.sent)
         /\ trip' = [trip EXCEPT !.pc = AfterCall(r.result, "created")]
    /\ UNCHANGED <<call, hist, fn, tasks>>

RoundTripUpdate ==
    /\ trip.pc = "listed1"
    /\ IsSome(trip.upd)
    /\ \E r \in {DoUpdate(trip.client, PayloadId(trip.client, trip.props),
                          Unwrap(trip.upd), ServiceNet)} :
         /\ server' = ServerAfter(server, [t |-> "service"], r.sent)
         /\ trip' = [trip EXCEPT !.pc = AfterCall(r.result, "updated")]
    /\ UNCHANGED <<call, hist, fn, tasks>>

RoundTripDelete ==
    /\ \/ trip.pc = "updated"
       \/ trip.pc = "listed1" /\ ~IsSome(trip.upd)
    /\ \E r \in {DoDelete(trip.client, PayloadId(trip.client, trip.props),
                          FALSE, ServiceNet)} :
         /\ server' = ServerAfter(server, [t |-> "service"], r.sent)
         /\ trip' = [trip EXCEPT !.pc = AfterCall(r.result, "deleted")]
    /\ UNCHANGED <<call, hist, fn, tasks>>

NextRoundTrip ==
    \/ RoundTripList0 \/ RoundTripCreate \/ RoundTripList1
    \/ RoundTripUpdate \/ RoundTripDelete \/ RoundTripList2

SpecRoundTrip == InitRoundTrip /\ [][NextRoundTrip]_vars

\* the listed page holds the resource that the payload describes
Lists(page, client, props) ==
    \E i \in 1..Len(page.items) :
      /\ page.items[i].name = Some(props.name)
      /\ KindOf(client) # "catalogs" =>
             page.items[i].catalog_name = Some(props.catalog_name)
      /\ KindOf(client) = "tables" =>
             page.items[i].schema_name = Some(props.schema_name)

\* C7: the round trip list, create, list, (update,) delete, list completes
\* without error; the last list equals the first, the list after the create
\* holds the created resource and differs from the first, and the last list
\* does not hold it.
C7_RoundTrip ==
    /\ trip.pc # "failed"
    /\ trip.pc \in {"listed1", "updated", "deleted", "done"} =>
         /\ Lists(Unwrap(trip.L1), trip.client, trip.props)
         /\ trip.L1 # trip.L0
    /\ trip.pc = "done" =>
         /\ Unwrap(trip.L2).items = Unwrap(trip.L0).items
         /\ ~Lists(Unwrap(trip.L2), trip.client, trip.props)

C7_Witness ==
    /\ trip.pc = "done"
    /\ trip.client = "schemas"
    /\ IsSome(trip.upd)
    /\ Len(Unwrap(trip.L0).items) = 1
    /\ Len(Unwrap(trip.L1).items) = 2

(***************************************************************************)
(* Further properties of a completed call.                                 *)
(***************************************************************************)
DuplicateOf(client, id) ==
    CASE KindOf(client) = "catalogs" -> DuplicateCatalogName(id)
      [] KindOf(client) = "schemas" -> DuplicateSchemaName(id)
      [] KindOf(client) = "tables" -> DuplicateTableName(id)

\* C11: a create that is answered with 409 returns the Duplicate*Name error
\* of the resource kind carrying the fully-qualified name of the payload:
\* name for a catalog, catalog_name.name for a schema,
\* catalog_name.schema_name.name for a table.
C11_DuplicateCarriesFullName ==
    (call.op = "create" /\ Answered(409))
        => call.result = DuplicateOf(call.client, call.id)

\* the response type of list, by client
ListResponseOf(client) ==
    CASE KindOf(client) = "catalogs" -> "ListCatalogResponse"
      [] KindOf(client) = "schemas" -> "ListSchemasResponse"
      [] KindOf(client) = "tables" -> "ListTablesResponse"

\* C12: a call of list, create, get, update or delete sends at most one
\* HTTP request whatever its outcome (no retry), and a list that succeeds
\* has sent exactly one request and returns the page of that one response,
\* with its next_page_token, without fetching the page after it.
C12_AtMostOneRequest ==
    /\ call.op # "none" => Len(call.sent) <= 1
    /\ (call.op = "list" /\ call.result.kind = "Ok") =>
           /\ Len(call.sent) = 1
           /\ call.result.value =
                  Response_json(call.response, ListResponseOf(call.client)).value

C12_Witness ==
    /\ call.op = "list"
    /\ call.outcome.t = "service"
    /\ call.result.kind = "Ok"
    /\ Len(call.sent) = 1
    /\ IsSome(call.result.value.next_page_token)
    /\ Len(call.result.value.items) = 1
    /\ Len(server[KindOf(call.client)]) = 2

\* C13: a call whose HTTP send fails, so that there is no response and no
\* status, returns the RequestError that carries the cause, for every
\* operation of every client; it does not panic and returns no other error
\* and no success.
C13_SendFailureIsRequestError ==
    (call.op # "none" /\ call.outcome.t = "neterr")
        => call.result = RequestError(SendError)

\* C14: the URL that list sends carries the parent filters of the resource
\* kind (none, catalog_name, or catalog_name then schema_name), then
\* page_token with the supplied value exactly when a token was supplied,
\* then max_results exactly when a maximum was supplied, and nothing else.
C14_ListQuery ==
    (call.op = "list" /\ call.sent # <<>>)
        => call.sent[1].url.query =
               (CASE KindOf(call.client) = "catalogs" -> <<>>
                  [] KindOf(call.client) = "schemas" ->
                         <<<<S_catalog_name, call.args[1]>>>>
                  [] KindOf(call.client) = "tables" ->
                         <<<<S_catalog_name, call.args[1]>>,
                           <<S_schema_name, call.args[2]>>>>)
               \o (IF call.page_token = None THEN <<>>
                   ELSE <<<<(<<"p", "a", "g", "e", "_">>
                                \o <<"t", "o", "k", "e", "n">>),
                            call.page_token[1]>>>>)
               \o (IF call.max_results = None THEN <<>>
                   ELSE <<<<(<<"m", "a", "x", "_">>
                                \o <<"r", "e", "s", "u", "l", "t", "s">>),
                            I32ToString(call.max_results[1])>>>>)

C14_Witness ==
    /\ call.op = "list"
    /\ call.client = "tables"
    /\ call.page_token # None
    /\ call.max_results = None
    /\ Len(call.sent) = 1
    /\ Len(call.sent[1].url.query) = 3
    /\ call.sent[1].url.query[3][2] = call.page_token[1]

\* C15: the body that update sends names no field that the caller left
\* unset: a field that is None in the UpdateCatalog / UpdateSchema payload
\* is not in the JSON object, in particular not as an explicit null, which
\* is the form a server takes for clearing the field.
C15_UnsetFieldsNotSent ==
    (call.op = "update" /\ call.sent # <<>>)
        => \A f \in {"new_name", "properties", "comment"} :
               call.props[f] = None
                   => \/ f \notin DOMAIN call.sent[1].body[1].jobj
                      \/ call.sent[1].body[1].jobj[f] # JNull

\* C16 as stated: a get of a schema that the service answers, issued when
\* the last write was the successful update of the same full name, succeeds
\* and returns the record that the update returned.
C16_UpdateThenGet ==
    (/\ call.op = "get"
     /\ call.client = "schemas"
     /\ call.outcome.t = "service"
     /\ call.pre.st = "updated"
     /\ call.pre.kind = "schemas"
     /\ call.pre.id = call.id)
        => call.result = Ok(call.pre.value)

\* C16 amended: the same, for an update that left new_name unset; an update
\* that renames the schema moves it to another full name.
C16_UpdateThenGetSameName ==
    (/\ call.op = "get"
     /\ call.client = "schemas"
     /\ call.outcome.t = "service"
     /\ call.pre.st = "updated"
     /\ call.pre.kind = "schemas"
     /\ call.pre.id = call.id
     /\ call.pre.props.new_name = None)
        => call.result = Ok(call.pre.value)

C16_Witness ==
    /\ call.op = "get"
    /\ call.client = "schemas"
    /\ call.outcome.t = "service"
    /\ call.pre.st = "updated"
    /\ call.pre.kind = "schemas"
    /\ call.pre.id = call.id
    /\ call.pre.props.new_name = None
    /\ call.pre.props.comment = Some(S_new_comment)
    /\ call.result = Ok(call.pre.value)
    /\ call.result.value.comment = Some(S_new_comment)
    /\ call.result.value.full_name = Some(call.id)

\* C17: request classifies a received response by its status alone, seen
\* through list, which returns the result of request unchanged: a 2xx
\* response gives the decoded body (Ok) or JSONParsingError, every other
\* status gives RequestErrorWithResponse with the status error and the body
\* text; Ok comes only from a 2xx response and RequestErrorWithResponse
\* never does.
C17_ClassifiedByStatusAlone ==
    (call.op = "list" /\ call.sent # <<>> /\ call.response.ok)
        => /\ AnsweredSuccess
               => call.result.kind \in {"Ok", "JSONParsingError"}
           /\ AnsweredNonSuccess
               => call.result = RequestErrorWithResponse(
                                    StatusError(call.response.status),
                                    call.response.body)
           /\ call.result.kind = "Ok" => AnsweredSuccess
           /\ call.result.kind = "RequestErrorWithResponse"
               => AnsweredNonSuccess

(***************************************************************************)
(* request.rs called directly: RequestClient::get, post, patch and delete  *)
(* are public and generic in the body type B and the response type R.  The *)
(* specification below calls them with bodies of several types, one of     *)
(* which serde_json cannot write, under every answer of the network that   *)
(* does not depend on the request.                                         *)
(***************************************************************************)
RequestBodies(B) ==
    IF B = "String" THEN {None, Some(S_v)}
    ELSE IF B = "NonStringKeyMap"
    THEN {None, Some(<<>>), Some(<<[key |-> <<1, 2>>, value |-> S_v]>>)}
    ELSE {None} \cup {Some(p) : p \in CreateCatalogs}

DoRequest(method, route, body, B, R, net) ==
    CASE method = "GET" -> RequestClient_get(route, body, B, R, net)
      [] method = "POST" -> RequestClient_post(route, body, B, R, net)
      [] method = "PATCH" -> RequestClient_patch(route, body, B, R, net)
      [] method = "DELETE" -> RequestClient_delete(route, body, B, R, net)

Request ==
    /\ call.op = "none"
    /\ \E method \in {"GET", "POST", "PATCH", "DELETE"},
          route \in {Url_join(base_url, PATH_catalogs),
                     Url_join(base_url, Format(FMT_catalog, <<S_unity>>))},
          B \in {"String", "NonStringKeyMap", "CreateCatalog"},
          R \in {"Unit", "CatalogInfo"},
          o \in Outcomes \ {[t |-> "service"]} :
        \E body \in RequestBodies(B) :
          \E r \in {DoRequest(method, route, body, B, R,
                              [server |-> server, outcome |-> o])} :
            /\ call' = [op |-> "request", method |-> method, route |-> route,
                        B |-> B, R |-> R, body |-> body, outcome |-> o,
                        sent |-> r.sent,
                        response |-> Received(server, o, r.sent),
                        result |-> r.result]
            /\ UNCHANGED <<server, hist, trip, fn, tasks>>

NextRequest == Request \/ Return

SpecRequest == Init /\ [][NextRequest]_vars

\* C18: a call of request with a body whose JSON serialization fails
\* returns JSONFormattingError and has sent no HTTP request, whatever the
\* network would have answered; JSONFormattingError is never the result of
\* a call that sent a request.
C18_FormattingErrorBeforeSend ==
    call.op = "request"
        => /\ (IsSome(call.body)
                 /\ ~Serialize(call.B, Unwrap(call.body)).ok)
                  => (call.result = JSONFormattingError /\ call.sent = <<>>)
           /\ call.result = JSONFormattingError => call.sent = <<>>

C18_Witness ==
    /\ call.op = "request"
    /\ call.method = "POST"
    /\ call.B = "NonStringKeyMap"
    /\ call.body = Some(<<[key |-> <<1, 2>>, value |-> S_v]>>)
    /\ call.outcome.t = "fault"
    /\ call.outcome.status = 200
    /\ call.result = JSONFormattingError
    /\ call.sent = <<>>
    /\ call.response = [nothing |-> TRUE]

\* the two headers that request adds next to a body
JsonHeaders ==
    {<<"Content-Type", "application/json">>, <<"Accept", "application/json">>}

\* C19: the request that an operation sends carries the headers
\* Content-Type: application/json and Accept: application/json if and only
\* if it carries a body, and no header of these otherwise; list, get and
\* delete send no body and neither header, create and update send a body
\* and both headers.
C19_JsonHeadersIffBody ==
    (call.op # "none" /\ call.sent # <<>>)
        => /\ call.sent[1].headers
                  = (IF IsSome(call.sent[1].body) THEN JsonHeaders ELSE {})
           /\ call.op \in {"list", "get", "delete"}
                  => (call.sent[1].body = None /\ call.sent[1].headers = {})
           /\ call.op \in {"create", "update"}
                  => /\ IsSome(call.sent[1].body)
                     /\ call.sent[1].headers = JsonHeaders

C19_Witness ==
    /\ call.op = "update"
    /\ call.client = "schemas"
    /\ call.sent # <<>>
    /\ call.sent[1].method = "PATCH"
    /\ IsSome(call.sent[1].body)
    /\ call.sent[1].headers = JsonHeaders
    /\ call.result.kind = "Ok"

\* the URL of a member of a collection with these query pairs
MemberUrl(path, id, query) ==
    [host |-> "localhost", path |-> path \o <<"/">> \o id, query |-> query,
     fragment |-> None]

\* C20: the request of a delete on a catalog (by either catalog client) or
\* on a schema goes to the member's URL with exactly one query pair, force,
\* whose value is "true" when force is true and "false" when it is false;
\* the request of a delete on a table goes to the member's URL with no query
\* at all.  Both catalog clients thereby send to the same URL for the same
\* name and force.
C20_DeleteForceQuery ==
    (call.op = "delete" /\ call.sent # <<>>)
        => /\ KindOf(call.client) = "catalogs"
                  => call.sent[1].url
                         = MemberUrl(PATH_catalogs, call.id,
                               <<<<S_force,
                                   IF call.force THEN S_true ELSE S_false>>>>)
           /\ call.client = "schemas"
                  => call.sent[1].url
                         = MemberUrl(PATH_schemas, call.id,
                               <<<<S_force,
                                   IF call.force THEN S_true ELSE S_false>>>>)
           /\ call.client = "tables"
                  => call.sent[1].url = MemberUrl(PATH_tables, call.id, <<>>)

C20_Witness ==
    /\ call.op = "delete"
    /\ call.client = "clients_catalogs"
    /\ call.force = FALSE
    /\ call.sent # <<>>
    /\ call.sent[1].method = "DELETE"
    /\ call.sent[1].url.query = <<<<S_force, S_false>>>>
    /\ call.outcome.t = "service"
    /\ call.result = Ok(<<>>)

\* C21: an operation returns Ok only when its request was answered with a
\* 2xx status: never after a send failure, a serialization failure or
\* another status; and a list, create, get or update returns Ok only when
\* the body of that 2xx response decoded.
C21_OkOnlyAfterSuccess ==
    (call.op \in {"list", "create", "get", "update", "delete"}
       /\ call.result.kind = "Ok")
        => /\ AnsweredSuccess
           /\ call.op # "delete" => call.response.body_ok

\* a name without the separator of full names
DotFree(s) == \A i \in 1..Len(s) : s[i] # "."

DotFreeStrings == {s \in FnStrings : DotFree(s)}

\* C22: the join escapes no '.', so components that contain '.' collide:
\* full_name("c", "a.b") of a schema is full_name("c", "a", "b") of a table
\* and full_name("a.b", "c") is full_name("a", "b.c"); when no component
\* contains '.', the identifier determines the components: a schema or a
\* table of dot-free components with the same identifier is the same
\* resource of the same kind.
C22_FullNameCollides ==
    /\ (fn.op = "SchemasClient::full_name"
          /\ fn.args[1] = <<"c">> /\ fn.args[2] = <<"a", ".", "b">>)
         => fn.out = TablesClient_full_name(<<"c">>, <<"a">>, <<"b">>)
    /\ (fn.op = "SchemasClient::full_name"
          /\ fn.args[1] = <<"a", ".", "b">> /\ fn.args[2] = <<"c">>)
         => fn.out = SchemasClient_full_name(<<"a">>, <<"b", ".", "c">>)
    /\ (fn.op = "SchemasClient::full_name"
          /\ DotFree(fn.args[1]) /\ DotFree(fn.args[2]))
         => /\ \A c \in DotFreeStrings, n \in DotFreeStrings :
                 SchemasClient_full_name(c, n) = fn.out
                     => (c = fn.args[1] /\ n = fn.args[2])
            /\ \A c \in DotFreeStrings, s \in DotFreeStrings,
                  n \in DotFreeStrings :
                 TablesClient_full_name(c, s, n) # fn.out
    /\ (fn.op = "TablesClient::full_name"
          /\ \A i \in 1..3 : DotFree(fn.args[i]))
         => \A c \in DotFreeStrings, s \in DotFreeStrings,
               n \in DotFreeStrings :
              TablesClient_full_name(c, s, n) = fn.out
                  => <<c, s, n>> = fn.args

C22_Witness ==
    /\ fn.op = "SchemasClient::full_name"
    /\ fn.args[1] = <<"c">>
    /\ fn.args[2] = <<"a", ".", "b">>
    /\ fn.out = <<"c", ".", "a", ".", "b">>
    /\ fn.out = TablesClient_full_name(<<"c">>, <<"a">>, <<"b">>)
    /\ <<"c">> \in DotFreeStrings

(***************************************************************************)
(* Concurrent calls.  The clients borrow one RequestClient (client: &'a    *)
(* RequestClient) and every method takes &self, so several callers can     *)
(* have a call under way at once.  A call is two steps: the request is     *)
(* built and handed to send(), and later the response arrives and the      *)
(* method computes its result.  The service handles a request when it      *)
(* answers it; calls interleave in every order.                            *)
(***************************************************************************)
\* the method that the call t of a task runs
DoCall(t, net) ==
    CASE t.op = "list" -> DoList(t.client, t.args, None, None, net)
      [] t.op = "create" -> DoCreate(t.client, t.props, net)
      [] t.op = "get" -> DoGet(t.client, t.id, net)
      [] t.op = "update" -> DoUpdate(t.client, t.id, t.props, net)
      [] t.op = "delete" -> DoDelete(t.client, t.id, t.force, net)

\* a network on which nothing is answered
QuietNet ==
    [server |-> [catalogs |-> <<>>, schemas |-> <<>>, tables |-> <<>>],
     outcome |-> [t |-> "neterr"]]

\* a network with no resources that hands this response to the call
ReplayNet(response) ==
    [server |-> QuietNet.server,
     outcome |-> IF "ok" \in DOMAIN response /\ response.ok
                 THEN [t |-> "fault", status |-> response.status,
                       body |-> response.body, body_ok |-> response.body_ok]
                 ELSE [t |-> "neterr"]]

Started(p, t) ==
    \E r \in {DoCall(t, QuietNet)} :
      /\ tasks' = [tasks EXCEPT ![p] = [pc |-> "sending", call |-> t,
                                         sent |-> r.sent]]
      /\ UNCHANGED <<server, call, hist, trip, fn>>

\* a caller starts a method of the catalogs or the schemas client on the
\* resource of a create payload; the request leaves
Send(p) ==
    LET TaskCall(op, client, props, upd, a) ==
            CASE op = "list" -> [op |-> op, client |-> client, args |-> a]
              [] op = "create" ->
                     [op |-> op, client |-> client, props |-> props]
              [] op = "get" -> [op |-> op, client |-> client,
                                id |-> PayloadId(client, props)]
              [] op = "update" ->
                     [op |-> op, client |-> client,
                      id |-> PayloadId(client, props), props |-> upd]
              [] op = "delete" ->
                     [op |-> op, client |-> client,
                      id |-> PayloadId(client, props), force |-> FALSE]
    IN  /\ tasks[p].pc = "idle"
        /\ \E client \in {"catalogs", "schemas"},
              op \in {"list", "create", "get", "update", "delete"} :
             \E props \in {c \in CreatePayloads(client) : c.comment = None},
                upd \in {u \in UpdatePayloads(client) : u.new_name = None},
                a \in ListArgs(client) :
               Started(p, TaskCall(op, client, props, upd, a))

Receive_cached(p) ==
    /\ tasks[p].pc = "sending"
    /\ \E o \in Outcomes :
         \E r \in {DoCall(tasks[p].call, [server |-> server, outcome |-> o])} :
           /\ server' = ServerAfter(server, o, r.sent)
           /\ tasks' = [tasks EXCEPT ![p] =
                 [pc |-> "done", call |-> tasks[p].call, sent |-> r.sent,
                  outcome |-> o,
                  response |-> Received(server, o, r.sent),
                  result |-> IF \E q \in Tasks \ {p} :
                                   /\ tasks[q].pc = "done"
                                   /\ tasks[q].call.op = tasks[p].call.op
                             THEN tasks[CHOOSE q \in Tasks \ {p} :
                                          /\ tasks[q].pc = "done"
                                          /\ tasks[q].call.op
                                                 = tasks[p].call.op].result
                             ELSE r.result]]
           /\ UNCHANGED <<call, hist, trip, fn>>

\* the request of a caller is answered (or fails) and its method returns
Receive(p) ==
    /\ tasks[p].pc = "sending"
    /\ \E o \in Outcomes :
         \E r \in {DoCall(tasks[p].call, [server |-> server, outcome |-> o])} :
           /\ server' = ServerAfter(server, o, r.sent)
           /\ tasks' = [tasks EXCEPT ![p] =
                 [pc |-> "done", call |-> tasks[p].call, sent |-> r.sent,
                  outcome |-> o,
                  response |-> Received(server, o, r.sent),
                  result |-> r.result]]
           /\ UNCHANGED <<call, hist, trip, fn>>

\* the caller takes the result
Finish(p) ==
    /\ tasks[p].pc = "done"
    /\ tasks' = [tasks EXCEPT ![p] = [pc |-> "idle"]]
    /\ UNCHANGED <<server, call, hist, trip, fn>>

NextConcurrent == \E p \in Tasks : Send(p) \/ Receive(p) \/ Finish(p)

SpecConcurrent == Init /\ [][NextConcurrent]_vars

Address ==
    LET Named(id) ==
            {id,
             id \o <<"?", "k", "=", "v">>,
             id \o <<"#", "f">>,
             id \o <<"/", "x">>,
             id \o <<"/", ".", ".">>,
             <<".", ".", "/", "s", "c", "h", "e", "m", "a", "s", "/">>
                 \o S_unity \o S_dot \o S_default}
        Method(op, client, id, upd, force) ==
            CASE op = "get" -> [op |-> op, client |-> client, id |-> id]
              [] op = "update" ->
                     [op |-> op, client |-> client, id |-> id, props |-> upd]
              [] op = "delete" ->
                     [op |-> op, client |-> client, id |-> id, force |-> force]
        Addressed(t, o, r) ==
            /\ server' = ServerAfter(server, o, r.sent)
            /\ call' = t @@
                       [outcome |-> o, sent |-> r.sent,
                        response |-> Received(server, o, r.sent),
                        result |-> r.result]
            /\ hist' = Unknown
            /\ UNCHANGED <<trip, fn, tasks>>
        Called(t, o) ==
            Addressed(t, o, DoCall(t, [server |-> server, outcome |-> o]))
    IN  /\ call.op = "none"
        /\ \E client \in Clients, op \in {"get", "update", "delete"},
              o \in Outcomes, force \in BOOLEAN :
             /\ op = "update" => client # "tables"
             /\ op # "delete" => force = FALSE
             /\ \E known \in Ids(client),
                   upd \in IF client = "tables" THEN {None}
                           ELSE {u \in UpdatePayloads(client) :
                                    u.new_name = None} :
                  \E id \in Named(known) :
                    Called(Method(op, client, id, upd, force), o)

NextAddress == Address \/ Create \/ Return

SpecAddress == Init /\ [][NextAddress]_vars

\* C24: the request of a get, update or delete of a resource kind goes to
\* the base URL's host and to the path of that kind's collection followed
\* by '/' and the identifier exactly as passed, with no fragment and with
\* no query but the force pair of a catalog or schema delete, whatever the
\* identifier contains; and a NotFound error carries the identifier as
\* passed.
C24_AddressedToOwnMember ==
    (call.op \in {"get", "update", "delete"} /\ call.sent # <<>>)
        => /\ call.sent[1].url
                  = MemberUrl(CASE KindOf(call.client) = "catalogs"
                                       -> PATH_catalogs
                                [] KindOf(call.client) = "schemas"
                                       -> PATH_schemas
                                [] KindOf(call.client) = "tables"
                                       -> PATH_tables,
                              call.id,
                              IF call.op = "delete" /\ call.client # "tables"
                              THEN <<<<S_force,
                                       IF call.force THEN S_true
                                       ELSE S_false>>>>
                              ELSE <<>>)
           /\ call.result.kind \in {"CatalogNotFound", "SchemaNotFound",
                                    "TableNotFound"}
                  => call.result.name = call.id

====
